---- MODULE Spec2Model ----
(***************************************************************************)
(* Model of bin/update_github_issues.py: one reconciliation pass of the    *)
(* test failures of a service against the open GitHub issues of that       *)
(* service, followed by one rerun of the pass with the same inputs.        *)
(*                                                                         *)
(* Text (issue bodies, comment bodies, error messages) is a sequence of    *)
(* tokens.  A token is either free text or one occurrence of a dated       *)
(* status string, i.e. one match of the regular expressions the script     *)
(* uses:                                                                   *)
(*   "orig" : 'Original failure date: YYYY-MM-DD'                          *)
(*   "mrf"  : 'Most recent failure: YYYY-MM-DD'                            *)
(*   "succ" : 'Most recent success: YYYY-MM-DD'                            *)
(*   "dis"  : 'Collection/service disassociation detected: YYYY-MM-DD'     *)
(* Dates are day numbers.                                                  *)
(***************************************************************************)
EXTENDS Integers, Sequences, FiniteSets, TLC

\* ------------------------------------------------------------------ bounds
MaxIssues == 2        \* items (issues and pull requests) in the tracker at start
MaxFailures == 2      \* records in test_output.json
PageSize == 1         \* items per page of a paginated GitHub response
MaxDay == 2           \* last day the clock may reach (it starts at day 1)

\* ------------------------------------------------------------------- text
Txt(s) == [k |-> "text", s |-> s, d |-> 0]
Dated(kind, day) == [k |-> kind, s |-> "", d |-> day]

RECURSIVE Join(_)
\* ''.join(chars)
Join(chars) == IF chars = <<>> THEN "" ELSE Head(chars) \o Join(Tail(chars))

\* --------------------------------------------------- process configuration
service_name == "svc"
Environments == {"PROD", "UAT"}

\* Collections as listed in SERVICE_COLLECTIONS (short_name, version, concept_id).
CollA  == [short_name |-> "A", version |-> "1", concept_id |-> <<"C", "1", "-", "P">>]
CollA2 == [short_name |-> "A", version |-> "1", concept_id |-> <<"C", "3", "-", "R">>]
CollB  == [short_name |-> "B", version |-> "1",
           concept_id |-> <<"C", "2", "-", "X", "-", "Q">>]

ServiceCollectionLists == {<<>>, <<CollB, CollA>>}

\* A failure record: {**service_collection, 'error': ..., 'url': ...}.
Failure(c, error, url) ==
    [short_name |-> c.short_name, version |-> c.version, concept_id |-> c.concept_id,
     error |-> error, url |-> url]

FailureRecords ==
    { Failure(CollA, <<Txt("boom")>>, "urlA"),
      Failure(CollA2, <<Txt("bang")>>, "urlA2"),
      Failure(CollB, <<Txt("failed, log says"), Dated("mrf", 0)>>, "urlB") }

RECURSIVE SeqsUpTo(_, _)
\* All sequences over S of length at most n.
SeqsUpTo(S, n) ==
    IF n = 0 THEN {<<>>}
    ELSE LET shorter == SeqsUpTo(S, n - 1)
         IN  shorter \cup {Append(q, x) : q \in shorter, x \in S}

\* The sequences of SeqsUpTo(S, n) that hold no element twice: the test run
\* appends one record for each collection it tested.
DistinctSeqsUpTo(S, n) ==
    { q \in SeqsUpTo(S, n) : \A a, b \in DOMAIN q : q[a] = q[b] => a = b }

\* ------------------------------------------------------- pure functions
None == 0             \* Python's None, where the other values are positive numbers

\* The line of three backquotes that opens and closes the error text.
CodeFence == Txt("[code fence]")

\* get_new_issue_body; date_string is the value get_date_string() returned.
get_new_issue_body(error, request_url, date_string) ==
    <<Txt("## Failure request URL:"), Txt("<" \o request_url \o ">"),
      Txt("## Failure details:"), CodeFence>>
    \o error \o
    <<CodeFence, Txt(""), Txt("## Failure results:"),
      Txt("Current status indicated by most recent date below:"), Txt(""),
      Dated("orig", date_string), Dated("mrf", date_string)>>

\* re.sub without a count: every match of the pattern in the body is replaced.
get_updated_failing_issue_body(existing_body, date_string) ==
    [n \in DOMAIN existing_body |->
        IF existing_body[n].k = "mrf" THEN Dated("mrf", date_string)
        ELSE existing_body[n]]

\* A Link header is a sequence of [url, rel] entries; re.search takes the first
\* entry whose rel is "next".  URLs of pages are page numbers.
UrlNoNext(link_header) == None
get_next_paginated_url(link_header) ==
    IF \E n \in DOMAIN link_header : link_header[n].rel = "next"
    THEN link_header[CHOOSE n \in DOMAIN link_header :
                        /\ link_header[n].rel = "next"
                        /\ \A m \in 1..(n - 1) : link_header[m].rel /= "next"].url
    ELSE None

has_label(issue, label_name) == label_name \in issue.labels

\* Indices of the issues the generator of get_collection_issue yields.
MatchingIndices(open_service_issues, collection_label, environment) ==
    { n \in DOMAIN open_service_issues :
        /\ has_label(open_service_issues[n], collection_label)
        /\ has_label(open_service_issues[n], environment) }

CollectionIssueAnyEnv(open_service_issues, collection_label, environment) ==
    LET hits == { n \in DOMAIN open_service_issues :
                    has_label(open_service_issues[n], collection_label) }
    IN  IF hits = {} THEN None
        ELSE CHOOSE n \in hits : \A m \in hits : n <= m
\* next(generator, None): index in open_service_issues of the first match, or None.
get_collection_issue(open_service_issues, collection_label, environment) ==
    LET hits == MatchingIndices(open_service_issues, collection_label, environment)
    IN  IF hits = {} THEN None
        ELSE CHOOSE n \in hits : \A m \in hits : n <= m

get_collection_label(collection_information) ==
    collection_information.short_name \o " " \o collection_information.version

RECURSIVE LastSegment(_)
\* The characters after the last '-' of a sequence of characters.
LastSegment(chars) ==
    IF chars = <<>> THEN <<>>
    ELSE IF chars[Len(chars)] = "-" THEN <<>>
    ELSE Append(LastSegment(SubSeq(chars, 1, Len(chars) - 1)), chars[Len(chars)])

RECURSIVE FirstSegment(_)
FirstSegment(chars) ==
    IF chars = <<>> THEN <<>>
    ELSE IF Head(chars) = "-" THEN <<>>
    ELSE <<Head(chars)>> \o FirstSegment(Tail(chars))

ProviderFirstSegment(failure_information) ==
    Join(FirstSegment(failure_information.concept_id))
\* concept_id.split('-')[-1]
get_collection_provider(failure_information) ==
    Join(LastSegment(failure_information.concept_id))

NewIssueLabelsNoEnvironment(collection_label, service_label, provider, environment) ==
    {collection_label, service_label, provider}
\* The 'labels' list of the creation request.
NewIssueLabels(collection_label, service_label, provider, environment) ==
    {collection_label, service_label, provider, environment}

\* The JSON of the creation request, as the tracker stores it.
NewIssue(failure_information, service_label, environment, date_string) ==
    LET collection_label == get_collection_label(failure_information)
    IN  [pull_request |-> FALSE,
         title |-> service_label \o " - " \o collection_label,
         body |-> get_new_issue_body(failure_information.error,
                                     failure_information.url, date_string),
         labels |-> NewIssueLabels(collection_label, service_label,
                                   get_collection_provider(failure_information),
                                   environment),
         comments |-> <<>>]

DidNotFailLastRecordOnly(service_issue, failures) ==
    \/ failures = <<>>
    \/ ~ has_label(service_issue, get_collection_label(failures[Len(failures)]))
collection_did_not_fail_service_tests(service_issue, failures) ==
    ~ \E n \in DOMAIN failures :
        has_label(service_issue, get_collection_label(failures[n]))

get_issues_without_failures(github_issues, failures) ==
    SelectSeq(github_issues,
              LAMBDA github_issue :
                  collection_did_not_fail_service_tests(github_issue, failures))

\* re.search(body_pattern, body) is not None, for the pattern of one dated kind.
BodyMatches(body, kind) == \E n \in DOMAIN body : body[n].k = kind

\* Index (the comment id) of the first comment whose body matches, or None.
get_matching_comment_id(comments, kind) ==
    LET hits == { n \in DOMAIN comments : BodyMatches(comments[n].body, kind) }
    IN  IF hits = {} THEN None
        ELSE comments[CHOOSE n \in hits : \A m \in hits : n <= m].id

AssociatedIgnoringEnvironment(github_issue, collections, environment) ==
    \E n \in DOMAIN collections :
        get_collection_label(collections[n]) \in github_issue.labels
is_github_issue_for_associated_collection(github_issue, collections, environment) ==
    \E n \in DOMAIN collections :
        {get_collection_label(collections[n]), environment} \subseteq github_issue.labels

\* ------------------------------------------------- the GitHub side (REST API)
\* What GET /issues returns for one item of the tracker.
ItemView(tracker, n) ==
    [number |-> n, labels |-> tracker[n].labels, body |-> tracker[n].body,
     pull_request |-> tracker[n].pull_request]

\* params={'state': 'open', 'labels': service_label}: the items carrying the label.
ItemsWithLabel(tracker, service_label) ==
    SelectSeq([n \in DOMAIN tracker |-> ItemView(tracker, n)],
              LAMBDA item : service_label \in item.labels)

Min(a, b) == IF a <= b THEN a ELSE b

\* One page of a listing, with the Link header GitHub sends with it.
LinkHeader(total, page) ==
    (IF page > 1 THEN <<[url |-> page - 1, rel |-> "prev"]>> ELSE <<>>)
    \o (IF page * PageSize < total
        THEN <<[url |-> page + 1, rel |-> "next"],
               [url |-> (total + PageSize - 1) \div PageSize, rel |-> "last"]>>
        ELSE <<>>)
    \o (IF page > 1 THEN <<[url |-> 1, rel |-> "first"]>> ELSE <<>>)

Response(listing, page) ==
    [json |-> SubSeq(listing, (page - 1) * PageSize + 1,
                     Min(page * PageSize, Len(listing))),
     link |-> LinkHeader(Len(listing), page)]

\* The response whose status raise_for_status rejects carries no listing.
ErrorResponse == [json |-> <<>>, link |-> <<>>]

\* ----------------------------------------------------------------- inputs
Comments(bodies) == [n \in DOMAIN bodies |-> [id |-> n, body |-> bodies[n]]]

\* Items the tracker may hold when the pass starts.
InitialItems ==
    { [pull_request |-> FALSE, title |-> "svc - A 1",
       labels |-> {"svc", "A 1", "P", "PROD"},
       body |-> get_new_issue_body(<<Txt("boom")>>, "urlA", 0),
       comments |-> <<>>],
      [pull_request |-> FALSE, title |-> "svc - A 1",
       labels |-> {"svc", "A 1", "P", "UAT"},
       body |-> get_new_issue_body(<<Txt("boom")>>, "urlA", 0),
       comments |-> Comments(<< <<Dated("succ", 0)>> >>)],
      [pull_request |-> TRUE, title |-> "Handle A 1",
       labels |-> {"svc", "A 1", "PROD", "UAT"},
       body |-> <<Txt("pull request")>>,
       comments |-> <<>>],
      [pull_request |-> FALSE, title |-> "svc - B 1",
       labels |-> {"svc", "B 1", "Q", "PROD"},
       body |-> get_new_issue_body(<<Txt("failed, log says"), Dated("mrf", 0)>>,
                                   "urlB", 0),
       comments |-> Comments(<< <<Txt("looking into it")>>,
                                <<Txt("seems fine."), Dated("succ", 0)>>,
                                <<Dated("dis", 0)>> >>)],
      [pull_request |-> FALSE, title |-> "other - A 1",
       labels |-> {"other", "A 1", "P", "PROD"},
       body |-> get_new_issue_body(<<Txt("boom")>>, "urlA", 0),
       comments |-> <<>>] }

\* ------------------------------------------------------------------ state
VARIABLES
    issues,                 \* the tracker: item number -> item (all open)
    today,                  \* the day date.today() last returned
    earthdata_environment,  \* EARTHDATA_ENVIRONMENT
    service_collections,    \* SERVICE_COLLECTIONS
    test_output,            \* content of TEST_DIRECTORY/test_output.json
    pc,                     \* position of the script
    rerun,                  \* TRUE in the second pass over the same inputs
    before_rerun,           \* the tracker as the first pass left it
    issues_url,             \* get_open_service_issues: next page to request
    open_service_issues,    \* get_open_service_issues: items collected so far
    service_issues,         \* __main__: the list get_open_service_issues returned
    test_failures,          \* __main__: the list get_test_failures returned
    failure_index,          \* position of the loop over test_failures
    github_issues_without_failures,
    sweep_index,            \* position of the loop over the issues without failures
    comment_date,           \* get_date_string() as read on entry to add_*_comment
    comments_url,           \* get_issue_comments: next page to request
    issue_comments,         \* get_issue_comments: comments collected so far
    requests                \* every HTTP request of the pass so far, in order

vars == <<issues, today, earthdata_environment, service_collections, test_output,
          pc, rerun, before_rerun, issues_url, open_service_issues, service_issues,
          test_failures, failure_index, github_issues_without_failures,
          sweep_index, comment_date, comments_url, issue_comments, requests>>

inputs == <<earthdata_environment, service_collections, test_output>>
fetch_vars == <<issues_url, open_service_issues, service_issues>>
sweep_vars == <<github_issues_without_failures, sweep_index, comment_date,
                comments_url, issue_comments>>

\* A request of the pass: its kind, the issue it names (created, for a successful
\* POST issue), the comment it names, the failure record it is for, and whether
\* the response passed raise_for_status.
Request(op, number, comment_id, failure, ok) ==
    [op |-> op, number |-> number, comment_id |-> comment_id,
     failure |-> failure, ok |-> ok]

Init ==
    /\ issues \in SeqsUpTo(InitialItems, MaxIssues)
    /\ today = 1
    /\ earthdata_environment \in Environments
    /\ service_collections \in ServiceCollectionLists
    /\ test_output \in DistinctSeqsUpTo(FailureRecords, MaxFailures)
    /\ pc = "get_open_service_issues"
    /\ rerun = FALSE
    /\ before_rerun = <<>>
    /\ issues_url = 1
    /\ open_service_issues = <<>>
    /\ service_issues = <<>>
    /\ test_failures = <<>>
    /\ failure_index = None
    /\ github_issues_without_failures = <<>>
    /\ sweep_index = None
    /\ comment_date = None
    /\ comments_url = None
    /\ issue_comments = <<>>
    /\ requests = <<>>

\* ----------------------------------------------------------------- actions
\* get_date_string(): the clock never runs backwards and may have passed midnight
\* since it was last read.
DateStrings == {today, Min(today + 1, MaxDay)}

NeverRaises(ok) == FALSE
\* response.raise_for_status() raises iff the request failed.
raise_for_status(ok) == ~ ok

\* [issue for issue in open_service_issues if 'pull_request' not in issue]
WithoutPullRequests(items) == SelectSeq(items, LAMBDA item : ~ item.pull_request)

\* The loop over github_issues_without_failures, about to look at element n.
SweepFrom(without_failures, n) ==
    /\ github_issues_without_failures' = without_failures
    /\ issue_comments' = <<>>
    /\ comment_date' = None
    /\ IF n <= Len(without_failures)
       THEN /\ pc' = "add_issue_comment"
            /\ sweep_index' = n
            /\ comments_url' = 1
       ELSE /\ pc' = "done"
            /\ sweep_index' = None
            /\ comments_url' = None

FreshOpenIssues == WithoutPullRequests(ItemsWithLabel(issues, service_name))
\* The issue list __main__ hands to both phases: the one fetched at the start.
MainIssueList == service_issues

\* The loop over test_failures, about to look at element n; when the loop is
\* over, get_issues_without_failures selects the issues of the sweep.
FailuresFrom(failures, n) ==
    IF n <= Len(failures)
    THEN /\ pc' = "create_or_update_failure_github_issue"
         /\ failure_index' = n
         /\ UNCHANGED sweep_vars
    ELSE /\ failure_index' = None
         /\ SweepFrom(get_issues_without_failures(MainIssueList, failures), 1)

\* The process ends with the exception; its locals are gone.
Raise ==
    /\ pc' = "error"
    /\ issues_url' = None
    /\ open_service_issues' = <<>>
    /\ failure_index' = None
    /\ sweep_index' = None
    /\ comment_date' = None
    /\ comments_url' = None
    /\ issue_comments' = <<>>
    /\ UNCHANGED <<service_issues, test_failures, github_issues_without_failures>>

\* One iteration of the while loop of get_open_service_issues; on the last one
\* the function returns.
GetOpenServiceIssues ==
    /\ pc = "get_open_service_issues"
    /\ \E ok \in BOOLEAN :
        LET issues_response ==
                IF ok THEN Response(ItemsWithLabel(issues, service_name), issues_url)
                ELSE ErrorResponse
            collected == open_service_issues \o issues_response.json
            next_url == get_next_paginated_url(issues_response.link)
        IN  /\ requests' = Append(requests, Request("GET issues", None, None, None, ok))
            /\ IF raise_for_status(ok)
               THEN Raise
               ELSE IF next_url /= None
               THEN /\ issues_url' = next_url
                    /\ open_service_issues' = collected
                    /\ UNCHANGED <<pc, service_issues, test_failures, failure_index,
                                   sweep_vars>>
               ELSE /\ issues_url' = None
                    /\ open_service_issues' = <<>>
                    /\ service_issues' = WithoutPullRequests(collected)
                    /\ pc' = "get_test_failures"
                    /\ UNCHANGED <<test_failures, failure_index, sweep_vars>>
    /\ UNCHANGED <<issues, today, inputs, rerun, before_rerun>>

\* get_test_failures: json.load gives the list, or raises on a malformed file.
GetTestFailures ==
    /\ pc = "get_test_failures"
    /\ \/ /\ UNCHANGED fetch_vars
          /\ test_failures' = test_output
          /\ FailuresFrom(test_output, 1)
       \/ Raise
    /\ UNCHANGED <<issues, today, inputs, rerun, before_rerun, requests>>

\* create_or_update_failure_github_issue for test_failures[failure_index].
CreateOrUpdateFailureGithubIssue ==
    /\ pc = "create_or_update_failure_github_issue"
    /\ UNCHANGED <<service_issues, test_failures>>
    /\ \E ok \in BOOLEAN, date_string \in DateStrings :
        LET failure_information == test_failures[failure_index]
            open_issues == MainIssueList
            collection_label == get_collection_label(failure_information)
            found == get_collection_issue(open_issues, collection_label,
                                          earthdata_environment)
        IN  /\ today' = date_string
            /\ IF found = None
               THEN /\ issues' =
                        IF ok THEN Append(issues,
                                          NewIssue(failure_information, service_name,
                                                   earthdata_environment, date_string))
                        ELSE issues
                    /\ requests' = Append(requests,
                           Request("POST issue", IF ok THEN Len(issues) + 1 ELSE None,
                                   None, failure_index, ok))
               ELSE LET collection_issue == open_issues[found]
                    IN  /\ issues' =
                            IF ok
                            THEN [issues EXCEPT ![collection_issue.number].body =
                                    get_updated_failing_issue_body(
                                        collection_issue.body, date_string)]
                            ELSE issues
                        /\ requests' = Append(requests,
                               Request("PATCH issue", collection_issue.number, None,
                                       failure_index, ok))
            /\ IF raise_for_status(ok)
               THEN Raise
               ELSE /\ FailuresFrom(test_failures, failure_index + 1)
                    /\ UNCHANGED <<issues_url, open_service_issues>>
    /\ UNCHANGED <<inputs, rerun, before_rerun>>

\* add_success_issue_comment or add_disassociation_issue_comment, up to and
\* including one iteration of the while loop of get_issue_comments.  The date
\* of the comment string is read on entry, before the first request.
GetIssueComments ==
    /\ pc = "add_issue_comment"
    /\ \E ok \in BOOLEAN,
          date_string \in (IF comments_url = 1 THEN DateStrings ELSE {comment_date}) :
        LET github_issue == github_issues_without_failures[sweep_index]
            comments_response ==
                IF ok THEN Response(issues[github_issue.number].comments, comments_url)
                ELSE ErrorResponse
            collected == issue_comments \o comments_response.json
            next_url == get_next_paginated_url(comments_response.link)
        IN  /\ today' = date_string
            /\ requests' = Append(requests,
                   Request("GET comments", github_issue.number, None, None, ok))
            /\ IF raise_for_status(ok)
               THEN Raise
               ELSE /\ comment_date' = date_string
                    /\ issue_comments' = collected
                    /\ comments_url' = next_url
                    /\ pc' = IF next_url /= None THEN "add_issue_comment"
                             ELSE "create_or_update_issue_comment"
                    /\ UNCHANGED <<fetch_vars, test_failures, failure_index,
                                   github_issues_without_failures, sweep_index>>
    /\ UNCHANGED <<issues, inputs, rerun, before_rerun>>

\* The kind of comment __main__ chooses for an issue of the sweep.
CommentKind(github_issue) ==
    IF is_github_issue_for_associated_collection(github_issue, service_collections,
                                                 earthdata_environment)
    THEN "succ" ELSE "dis"

\* get_matching_comment_id and create_or_update_issue_comment, the rest of
\* add_success_issue_comment or add_disassociation_issue_comment.
CreateOrUpdateIssueComment ==
    /\ pc = "create_or_update_issue_comment"
    /\ \E ok \in BOOLEAN :
        LET github_issue == github_issues_without_failures[sweep_index]
            kind == CommentKind(github_issue)
            comment_body == <<Dated(kind, comment_date)>>
            comment_id == get_matching_comment_id(issue_comments, kind)
            stored == issues[github_issue.number].comments
        IN  /\ IF comment_id /= None
               THEN /\ issues' =
                        IF ok
                        THEN [issues EXCEPT ![github_issue.number].comments[comment_id].body
                                                = comment_body]
                        ELSE issues
                    /\ requests' = Append(requests,
                           Request("PATCH comment", github_issue.number, comment_id,
                                   None, ok))
               ELSE /\ issues' =
                        IF ok
                        THEN [issues EXCEPT ![github_issue.number].comments =
                                Append(stored, [id |-> Len(stored) + 1,
                                                body |-> comment_body])]
                        ELSE issues
                    /\ requests' = Append(requests,
                           Request("POST comment", github_issue.number,
                                   IF ok THEN Len(stored) + 1 ELSE None, None, ok))
            /\ IF raise_for_status(ok)
               THEN Raise
               ELSE /\ SweepFrom(github_issues_without_failures, sweep_index + 1)
                    /\ UNCHANGED <<fetch_vars, test_failures, failure_index>>
    /\ UNCHANGED <<today, inputs, rerun, before_rerun>>

\* The script is run again with the same environment variables and the same
\* test_output.json, against the tracker as the completed first pass left it.
Rerun ==
    /\ pc = "done"
    /\ ~ rerun
    /\ rerun' = TRUE
    /\ before_rerun' = issues
    /\ pc' = "get_open_service_issues"
    /\ issues_url' = 1
    /\ open_service_issues' = <<>>
    /\ service_issues' = <<>>
    /\ test_failures' = <<>>
    /\ failure_index' = None
    /\ github_issues_without_failures' = <<>>
    /\ sweep_index' = None
    /\ comment_date' = None
    /\ comments_url' = None
    /\ issue_comments' = <<>>
    /\ requests' = <<>>
    /\ UNCHANGED <<issues, today, inputs>>

Next ==
    \/ GetOpenServiceIssues
    \/ GetTestFailures
    \/ CreateOrUpdateFailureGithubIssue
    \/ GetIssueComments
    \/ CreateOrUpdateIssueComment
    \/ Rerun

Spec == Init /\ [][Next]_vars

\* ================================================================= claims
\* Vocabulary of the claims, stated from the labels and the request history
\* and not through the operators of the script.
Range(q) == { q[n] : n \in DOMAIN q }
Last(q) == q[Len(q)]
LabelOf(record) == record.short_name \o " " \o record.version
HasBoth(item, record) == {LabelOf(record), earthdata_environment} \subseteq item.labels
Least(S) == CHOOSE n \in S : \A m \in S : n <= m
Succeeded(op) == { r \in Range(requests) : r.op = op /\ r.ok }
CreatedNumbers == { r.number : r \in Succeeded("POST issue") }
IssueWrites == SelectSeq(requests, LAMBDA r : r.op \in {"POST issue", "PATCH issue"})
CommentWrites(number) ==
    SelectSeq(requests, LAMBDA r : /\ r.op \in {"POST comment", "PATCH comment"}
                                   /\ r.number = number)
Updated(number) == \E r \in Range(requests) : r.op = "PATCH issue" /\ r.number = number

\* C1: within one pass, no two issues are created for the same collection label
\* and environment, however many failure records share that label.
C1_NoDuplicateIssues ==
    \A a, b \in CreatedNumbers :
        \A n \in DOMAIN test_failures :
            (HasBoth(issues[a], test_failures[n]) /\ HasBoth(issues[b], test_failures[n]))
                => a = b

\* Text with every date blanked.
EraseDates(text) ==
    [n \in DOMAIN text |-> IF text[n].k = "text" THEN text[n] ELSE Dated(text[n].k, 0)]
ItemWithoutDates(item) ==
    [item EXCEPT !.body = EraseDates(item.body),
                 !.comments = [n \in DOMAIN item.comments |->
                                  [item.comments[n] EXCEPT !.body = EraseDates(@)]]]

\* C2: a rerun with the same inputs against the tracker left by a completed pass
\* requests no creation of an issue or of a comment: the tracker keeps its issues
\* and the comments of each, and differs from what the first pass left in dates
\* only.
C2_RerunIdempotent ==
    rerun =>
        /\ \A r \in Range(requests) : r.op \notin {"POST issue", "POST comment"}
        /\ Len(issues) = Len(before_rerun)
        /\ \A n \in DOMAIN issues :
            \/ issues[n] = before_rerun[n]
            \/ /\ Len(issues[n].comments) = Len(before_rerun[n].comments)
               /\ ItemWithoutDates(issues[n]) = ItemWithoutDates(before_rerun[n])

\* The rerun completed after a first pass that created an issue and commented;
\* it refreshed a body and a comment with a later date.
C2_Witness ==
    /\ rerun /\ pc = "done"
    /\ Succeeded("PATCH issue") /= {} /\ Succeeded("PATCH comment") /= {}
    /\ \E n \in DOMAIN issues :
        /\ issues[n].body /= before_rerun[n].body
        /\ \E t \in Range(issues[n].body) : t.k = "orig" /\ t.d >= 1
    /\ \E n \in DOMAIN issues : issues[n].comments /= before_rerun[n].comments

\* What claim C3 says of one step.
C3_Step ==
    pc = "create_or_update_failure_github_issue" =>
        LET record == test_failures[failure_index]
            hits == { n \in DOMAIN service_issues : HasBoth(service_issues[n], record) }
            r == Last(requests')
        IN  /\ Len(requests') = Len(requests) + 1
            /\ r.failure = failure_index
            /\ Len(SelectSeq(IssueWrites', LAMBDA w : w.failure = failure_index)) = 1
            /\ pc' = "create_or_update_failure_github_issue"
                   => failure_index' = failure_index + 1
            /\ IF hits = {}
               THEN /\ r.op = "POST issue"
                    /\ SubSeq(issues', 1, Len(issues)) = issues
                    /\ Len(issues') = Len(issues) + (IF r.ok THEN 1 ELSE 0)
               ELSE /\ r.op = "PATCH issue"
                    /\ r.number = service_issues[Least(hits)].number
                    /\ Len(issues') = Len(issues)
                    /\ \A n \in DOMAIN issues :
                        /\ n /= r.number => issues'[n] = issues[n]
                        /\ [issues'[n] EXCEPT !.body = issues[n].body] = issues[n]

\* C3: each failure record gets exactly one write request.  When no issue of the
\* fetched list carries both the collection label and the environment label the
\* request creates an issue and leaves every existing item as it is; otherwise
\* it updates the body of the first such issue, and nothing else, and creates
\* nothing.
C3_CreateOrUpdate == [][C3_Step]_vars

\* One record led to a creation and another to an update, in the same pass, with
\* an issue in the list that carries the collection label of the created one
\* for another environment.
C3_Witness ==
    /\ Succeeded("POST issue") /= {} /\ Succeeded("PATCH issue") /= {}
    /\ \E r \in Succeeded("POST issue") : \E n \in DOMAIN service_issues :
        /\ LabelOf(test_failures[r.failure]) \in service_issues[n].labels
        /\ earthdata_environment \notin service_issues[n].labels

\* seg is what follows the last '-' of chars (all of chars when it has none).
IsLastSegment(chars, seg) ==
    /\ "-" \notin Range(seg)
    /\ \/ chars = seg
       \/ \E n \in DOMAIN chars :
            chars[n] = "-" /\ SubSeq(chars, n + 1, Len(chars)) = seg
Contains(text, part) ==
    \E n \in 0..(Len(text) - Len(part)) : SubSeq(text, n + 1, n + Len(part)) = part

\* What claim C4 says of one step.
C4_Step ==
    Len(issues') > Len(issues) =>
        LET record == test_failures[failure_index]
            created == issues'[Len(issues')]
        IN  /\ Len(issues') = Len(issues) + 1
            /\ ~ created.pull_request
            /\ created.title
                 = service_name \o " - " \o record.short_name \o " " \o record.version
            /\ \E seg \in { SubSeq(record.concept_id, n, Len(record.concept_id)) :
                              n \in 1..(Len(record.concept_id) + 1) } :
                /\ IsLastSegment(record.concept_id, seg)
                /\ created.labels = {LabelOf(record), service_name, Join(seg),
                                     earthdata_environment}
            /\ Contains(created.body, record.error)
            /\ Txt("<" \o record.url \o ">") \in Range(created.body)
            /\ Dated("orig", today') \in Range(created.body)
            /\ Dated("mrf", today') \in Range(created.body)
            /\ \A t \in Range(created.body) : t.k = "orig" => t.d = today'
            /\ HasBoth(created, record)
            /\ ItemsWithLabel(issues', service_name) /= <<>>
            /\ Last(ItemsWithLabel(issues', service_name)).number = Len(issues')

\* C4: an issue the pass creates has the title "<service> - <short_name> <version>",
\* exactly the labels collection, service, provider (what follows the last '-' of
\* concept_id) and environment, and a body holding the error text, the request
\* URL, an 'Original failure date' line and a 'Most recent failure' line that both
\* give the date read at creation; the matcher finds it for that collection and
\* environment, and it carries the label the issue query asks for.
C4_CreatedIssue == [][C4_Step]_vars

\* An issue was created for the collection whose concept_id has two '-', on the
\* second day, from an error text that itself holds a dated line.
C4_Witness ==
    \E r \in Succeeded("POST issue") :
        /\ "Q" \in issues[r.number].labels
        /\ Dated("orig", 2) \in Range(issues[r.number].body)
        /\ Dated("mrf", 0) \in Range(issues[r.number].body)

\* What claim C5 says of one step.
C5_Step ==
    \A n \in DOMAIN issues :
        /\ n <= Len(issues')
        /\ [issues'[n] EXCEPT !.body = issues[n].body, !.comments = issues[n].comments]
              = issues[n]
        /\ Len(issues'[n].body) = Len(issues[n].body)
        /\ \A t \in DOMAIN issues[n].body :
             issues'[n].body[t] /= issues[n].body[t] =>
                /\ t = Len(issues[n].body)
                /\ issues[n].body[t].k = "mrf"
                /\ issues'[n].body[t] = Dated("mrf", today')

\* C5: the update of a failing issue changes, in the whole tracker, nothing but
\* the date of the 'Most recent failure' line that ends the body of that issue;
\* the error text above it is kept verbatim even when it holds text of the same
\* shape.
C5_OnlyStatusLineChanges == [][C5_Step]_vars

\* What claim C6 says of one step.
C6_Step ==
    pc = "create_or_update_issue_comment" =>
        LET number == github_issues_without_failures[sweep_index].number
            item == issues[number]
            associated ==
                \E c \in Range(service_collections) :
                    {c.short_name \o " " \o c.version, earthdata_environment}
                        \subseteq item.labels
            kind == IF associated THEN "succ" ELSE "dis"
            ofKind == { n \in DOMAIN item.comments :
                          \E t \in Range(item.comments[n].body) : t.k = kind }
            r == Last(requests')
            after == issues'[number].comments
        IN  /\ Len(requests') = Len(requests) + 1
            /\ r.number = number
            /\ Len(issues') = Len(issues)
            /\ \A n \in DOMAIN issues : n /= number => issues'[n] = issues[n]
            /\ [issues'[number] EXCEPT !.comments = item.comments] = item
            /\ ~ r.ok => after = item.comments
            /\ IF ofKind /= {}
               THEN /\ r.op = "PATCH comment"
                    /\ Len(after) = Len(item.comments)
                    /\ r.ok =>
                        /\ r.comment_id = item.comments[Least(ofKind)].id
                        /\ \A n \in DOMAIN after :
                             after[n] = IF n = Least(ofKind)
                                        THEN [item.comments[n] EXCEPT
                                                !.body = <<Dated(kind, comment_date)>>]
                                        ELSE item.comments[n]
               ELSE /\ r.op = "POST comment"
                    /\ r.ok =>
                        /\ Len(after) = Len(item.comments) + 1
                        /\ SubSeq(after, 1, Len(item.comments)) = item.comments
                        /\ Last(after).body = <<Dated(kind, comment_date)>>
            /\ comment_date \in {today, today - 1}

\* C6: for the issue the sweep is at, the comment written is a success comment
\* iff the labels of the issue include the collection label of some associated
\* collection together with the environment, and a disassociation comment
\* otherwise.  When the issue has a comment of that kind, the first such comment
\* becomes the dated string and none is added; otherwise one comment, the dated
\* string, is added.  The body of the issue and every other item stay as they are.
C6_SweepComment == [][C6_Step]_vars

\* In one pass a success comment was refreshed on one issue and a disassociation
\* comment was posted on another.
C6_Witness ==
    /\ \E r \in Succeeded("PATCH comment") :
          issues[r.number].comments[r.comment_id].body[1].k = "succ"
    /\ \E r \in Succeeded("POST comment") :
          issues[r.number].comments[r.comment_id].body[1].k = "dis"

\* What the issue query is to return for a tracker: its items that carry the
\* service label and are no pull requests, by ascending number.
RECURSIVE OpenServiceIssuesOf(_, _)
OpenServiceIssuesOf(tracker, n) ==
    IF n = 0 THEN <<>>
    ELSE LET before == OpenServiceIssuesOf(tracker, n - 1)
         IN  IF service_name \in tracker[n].labels /\ ~ tracker[n].pull_request
             THEN Append(before, [number |-> n, labels |-> tracker[n].labels,
                                  body |-> tracker[n].body, pull_request |-> FALSE])
             ELSE before
LabelledCount == Cardinality({ n \in DOMAIN issues : service_name \in issues[n].labels })

\* C7: get_open_service_issues requests page after page until a response has no
\* 'next' link and returns the items of all pages that are no pull requests, in
\* order; no request of the pass names a pull request, so none is matched,
\* updated or commented.
C7_OpenIssuesWithoutPullRequests ==
    /\ pc = "get_test_failures" =>
        /\ service_issues = OpenServiceIssuesOf(issues, Len(issues))
        /\ Len(requests) * PageSize >= LabelledCount
        /\ (Len(requests) - 1) * PageSize < LabelledCount \/ Len(requests) = 1
    /\ \A n \in DOMAIN service_issues : ~ service_issues[n].pull_request
    /\ \A r \in Range(requests) : r.number /= None => ~ issues[r.number].pull_request

\* The listing took more than one page and held a pull request that carries the
\* collection label and the environment of a failure record; an issue was
\* created for that record all the same.
C7_Witness ==
    /\ Len(SelectSeq(requests, LAMBDA r : r.op = "GET issues")) > 1
    /\ \E r \in Succeeded("POST issue") : \E n \in DOMAIN issues :
        /\ issues[n].pull_request
        /\ service_name \in issues[n].labels
        /\ HasBoth(issues[n], test_failures[r.failure])

\* What claim C8 says of one step.
C8_Step ==
    /\ \A n \in DOMAIN requests' : ~ requests'[n].ok => n = Len(requests') /\ pc' = "error"
    /\ pc /= "error"
    /\ pc' = "error" => issues' = issues
    /\ pc \in {"get_open_service_issues", "get_test_failures"} => issues' = issues
    /\ pc' = "error" /\ requests' = requests => pc = "get_test_failures"

\* C8: a failed request is the last request of the pass and ends it in the error
\* state, from which nothing more happens; the step that fails changes nothing
\* in the tracker, so earlier writes stay; and the tracker is as it was as long
\* as the pass is fetching the open issues or loading the failure file.
C8_FailureAborts == [][C8_Step]_vars

\* The pass ended in the error state on a failed request, after a successful
\* creation that is still in the tracker.
C8_Witness ==
    /\ pc = "error"
    /\ ~ Last(requests).ok
    /\ \E r \in Succeeded("POST issue") :
          r.number \in DOMAIN issues /\ issues[r.number].comments = <<>>

\* C9: in a pass that completes, every fetched issue gets a body update or a
\* sweep comment, and none gets both: the issues the failure phase left alone
\* are the ones commented.
C9_EveryIssueUpdatedOrCommented ==
    pc = "done" =>
        \A n \in DOMAIN service_issues :
            Updated(service_issues[n].number)
                <=> CommentWrites(service_issues[n].number) = <<>>

FailingLabel(item) == \E n \in DOMAIN test_failures : LabelOf(test_failures[n]) \in item.labels

\* C9 as amended: in a pass that completes, a fetched issue gets one sweep
\* comment, and no body update, when none of its labels is the collection label
\* of a failure record; a fetched issue that carries such a label gets no sweep
\* comment, whether its body was updated or not.
C9_SweepByCollectionLabel ==
    pc = "done" =>
        \A n \in DOMAIN service_issues :
            LET item == service_issues[n]
            IN  /\ ~ FailingLabel(item) =>
                    Len(CommentWrites(item.number)) = 1 /\ ~ Updated(item.number)
                /\ FailingLabel(item) => CommentWrites(item.number) = <<>>
                /\ Updated(item.number) => FailingLabel(item)

\* A completed pass that updated one fetched issue and left alone another that
\* carries the label of the same failing collection for another environment.
C9_Witness ==
    /\ pc = "done"
    /\ \E n, m \in DOMAIN service_issues :
        /\ Updated(service_issues[n].number)
        /\ ~ Updated(service_issues[m].number)
        /\ FailingLabel(service_issues[m])
        /\ CommentWrites(service_issues[m].number) = <<>>

Phase(r) ==
    IF r.op = "GET issues" THEN 1
    ELSE IF r.op \in {"POST issue", "PATCH issue"} THEN 2 ELSE 3

\* C10: in the requests of a pass the fetches of the issue pages come first, then
\* the writes for the failure records, one for each record in the order of the
\* list, then the reads and writes of comments.  The list fetched at the start
\* serves both phases: an issue created during the pass is not in it, and gets
\* neither an update nor a comment in that pass.
C10_Ordering ==
    /\ \A a \in 1..(Len(requests) - 1) : Phase(requests[a]) <= Phase(requests[a + 1])
    /\ \A a \in DOMAIN IssueWrites : IssueWrites[a].failure = a
    /\ pc \in {"add_issue_comment", "create_or_update_issue_comment", "done"}
          => Len(IssueWrites) = Len(test_failures)
    /\ \A c \in CreatedNumbers :
        /\ \A n \in DOMAIN service_issues : service_issues[n].number /= c
        /\ \A n \in DOMAIN github_issues_without_failures :
              github_issues_without_failures[n].number /= c
        /\ \A r \in Range(requests) : r.number = c => r.op = "POST issue"

\* A completed pass that fetched, created two issues for two records with the
\* same collection label, and then commented on a fetched issue.
C10_Witness ==
    /\ pc = "done"
    /\ \E a, b \in Succeeded("POST issue") :
          /\ a.failure < b.failure
          /\ LabelOf(test_failures[a.failure]) = LabelOf(test_failures[b.failure])
    /\ \E r \in Range(requests) : Phase(r) = 3 /\ r.ok

\* C11: a pass run for an environment changes no existing item that lacks the
\* label of that environment, in the failure phase or in the sweep: neither its
\* body nor its comments.
C11_EnvironmentConfinement ==
    [][\A n \in DOMAIN issues :
          earthdata_environment \notin issues[n].labels => issues'[n] = issues[n]]_vars

====
